---- MODULE Spec2Model ----
(***************************************************************************)
(* A model of noise.py: the 32-bit integer hash, the four noise samplers   *)
(* (value, fBm over value, Perlin, Worley) and the PGM exporter.           *)
(*                                                                         *)
(* Python's int is unbounded and Python's float is IEEE-754 binary64.      *)
(* TLC's integers are 32 bits wide, so both are built here from            *)
(* arbitrary-precision naturals kept as little-endian sequences of 15-bit  *)
(* limbs.  A float is the exact value (-1)^s * m * 2^e with m odd (or m    *)
(* zero), and every float operation computes the exact result and rounds   *)
(* it once, to nearest, ties to even, to 53 significant bits (gradual      *)
(* underflow included).  Magnitudes stay far below 2^1024 for the inputs   *)
(* enumerated, so overflow to infinity does not arise.                     *)
(***************************************************************************)
EXTENDS Integers, Sequences, FiniteSets, TLC

VARIABLES value_noise, fbm_value_noise, perlin_noise, worley_noise, last

(***************************************************************************)
(* Python computes a function body statement by statement.  A local        *)
(* variable is written With([x \in {v} |-> Body]): the statement x = v     *)
(* followed by the rest of the function body, which reads the value as x.  *)
(* v is computed once, in the statement's place.  With(f) is the one value *)
(* the function f takes.                                                   *)
(***************************************************************************)
With(f) == CHOOSE v \in UNION {{g[x] : x \in DOMAIN g} : g \in {f}} : TRUE

(***************************************************************************)
(* Arbitrary-precision naturals: <<>> is 0, no high zero limb.  The limb   *)
(* operations are written with quantifiers over the limb positions rather  *)
(* than by recursion along the limbs.                                      *)
(***************************************************************************)
Base == 2^15

Pow2(k) == 2^k

\* the number of bits of n, for 0 <= n < 2^30
BitLenInt(n) == Cardinality({k \in 0..29 : 2^k <= n})

LimbBits == BitLenInt(Base) - 1

Max2(a, b) == IF a >= b THEN a ELSE b

MaxOf(S) == CHOOSE x \in S : \A y \in S : y <= x

MinOf(S) == CHOOSE x \in S : \A y \in S : x <= y

\* limb i of a, 0 beyond its length
Limb(a, i) == IF i >= 1 /\ i <= Len(a) THEN a[i] ELSE 0

\* a without its high zero limbs
NNorm(a) == SubSeq(a, 1, MaxOf({0} \cup {i \in 1..Len(a) : a[i] # 0}))

\* for 0 <= n < 2^31
NFromInt(n) == NNorm(<<n % Base, (n \div Base) % Base, n \div (Base * Base)>>)

\* the value of a natural known to fit a TLC integer
NToInt(a) == Limb(a, 1) + Base * Limb(a, 2) + Base * Base * Limb(a, 3)

\* the carry into limb i of a + b + c: some lower limb makes one and the limbs
\* between pass it on
NCarry(a, b, c, i) ==
  \/ \E j \in 1..(i - 1) :
       /\ Limb(a, j) + Limb(b, j) >= Base
       /\ \A k \in (j + 1)..(i - 1) : Limb(a, k) + Limb(b, k) = Base - 1
  \/ c = 1 /\ \A k \in 1..(i - 1) : Limb(a, k) + Limb(b, k) = Base - 1

\* a + b + c for a carry c of 0 or 1
NAddC(a, b, c) ==
  NNorm([i \in 1..(Max2(Len(a), Len(b)) + 1) |->
           (Limb(a, i) + Limb(b, i)
              + (IF i = 1 THEN c ELSE IF NCarry(a, b, c, i) THEN 1 ELSE 0)) % Base])

NAdd(a, b) == NAddC(a, b, 0)

\* the borrow from limb i of a - b: some lower limb needs one and the limbs between
\* pass it on
NBorrow(a, b, i) ==
  \E j \in 1..(i - 1) :
    /\ Limb(a, j) < Limb(b, j)
    /\ \A k \in (j + 1)..(i - 1) : Limb(a, k) = Limb(b, k)

\* a - b for a >= b
NSub(a, b) ==
  NNorm([i \in 1..Len(a) |->
           (Limb(a, i) - Limb(b, i) - (IF NBorrow(a, b, i) THEN 1 ELSE 0) + Base) % Base])

\* -1, 0, 1 as a < b, a = b, a > b: the highest limb that differs decides
NCmp(a, b) ==
  LET n == Max2(Len(a), Len(b))
      d == {i \in 1..n : Limb(a, i) # Limb(b, i)}
  IN  IF d = {} THEN 0
      ELSE IF Limb(a, MaxOf(d)) < Limb(b, MaxOf(d)) THEN -1
      ELSE 1

\* a * d for a limb d: the low and the high limbs of the products, added
NMulSmall(a, d) ==
  NAdd(NNorm([i \in 1..Len(a) |-> (a[i] * d) % Base]),
       NNorm([i \in 1..(Len(a) + 1) |-> IF i = 1 THEN 0 ELSE (a[i - 1] * d) \div Base]))

Zeros(n) == [i \in 1..n |-> 0]

\* a * 2^k
NShl(a, k) ==
  IF a = <<>> THEN <<>>
  ELSE Zeros(k \div LimbBits) \o NMulSmall(a, Pow2(k % LimbBits))

\* a * b: acc[j] is a times the limbs 1..j of b
NMul(a, b) ==
  LET acc[j \in 0..Len(b)] ==
        IF j = 0 THEN <<>>
        ELSE With([before \in {acc[j - 1]} |->
             With([row \in {NMulSmall(a, b[j])} |->
               NAdd(before, Zeros(j - 1) \o row)])])
  IN  IF a = <<>> THEN <<>> ELSE acc[Len(b)]

\* floor(a / 2^k)
NShr(a, k) ==
  LET w == k \div LimbBits
      r == k % LimbBits
  IN  NNorm([i \in 1..Max2(Len(a) - w, 0) |->
               (Limb(a, i + w) \div Pow2(r))
                 + (Limb(a, i + w + 1) % Pow2(r)) * Pow2(LimbBits - r)])

\* a mod 2^k
NTrunc(a, k) ==
  LET w == k \div LimbBits
      r == k % LimbBits
  IN  NNorm([i \in 1..(IF Len(a) <= w THEN Len(a) ELSE w + 1) |->
               IF i <= w THEN a[i] ELSE a[i] % Pow2(r)])

NBitLen(a) == IF a = <<>> THEN 0 ELSE (Len(a) - 1) * LimbBits + BitLenInt(a[Len(a)])

NIsOdd(a) == a # <<>> /\ a[1] % 2 = 1

\* the number of trailing zero bits of n, for 0 < n < 2^30
TzInt(n) == Cardinality({k \in 1..29 : n % (2^k) = 0})

\* the number of trailing zero bits of a # 0
NTz(a) ==
  LET i == MinOf({j \in 1..Len(a) : a[j] # 0})
  IN  (i - 1) * LimbBits + TzInt(a[i])

\* a xor b for two limbs: bits[n, lo] is the xor of the n bits from bit lo up, the
\* two halves of them apart
XorInt(a, b) ==
  LET bits[n \in 1..LimbBits, lo \in 0..LimbBits] ==
        IF n = 1 THEN Pow2(lo) * ((((a \div Pow2(lo)) % 2) + ((b \div Pow2(lo)) % 2)) % 2)
        ELSE bits[n \div 2, lo] + bits[n - (n \div 2), lo + (n \div 2)]
  IN  bits[LimbBits, 0]

NXor(a, b) ==
  NNorm([i \in 1..Max2(Len(a), Len(b)) |-> XorInt(Limb(a, i), Limb(b, i))])

\* bit i (from 0) of a
NBit(a, i) == (Limb(a, (i \div LimbBits) + 1) \div Pow2(i % LimbBits)) % 2

\* one step of long division: <<quotient, remainder>> with one more bit of the
\* dividend brought down
NDivStep(qr, b, bit) ==
  With([r2 \in {NAddC(qr[2], qr[2], bit)} |->
    IF NCmp(r2, b) >= 0
    THEN <<NAddC(qr[1], qr[1], 1), NSub(r2, b)>>
    ELSE <<NAddC(qr[1], qr[1], 0), r2>>])

\* the bits of limb l of a brought down, the high one first, onto qr: bits[k] is
\* the result after k of them
NDivLimb(a, b, l, qr) ==
  LET bits[k \in 0..LimbBits] ==
        IF k = 0 THEN qr
        ELSE With([before \in {bits[k - 1]} |->
               NDivStep(before, b, (a[l] \div Pow2(LimbBits - k)) % 2)])
  IN  bits[LimbBits]

\* <<floor(a / b), a mod b>> for b # 0, by long division: limbs[c] is the result
\* for the high c limbs of a
NDivMod(a, b) ==
  LET limbs[c \in 0..Len(a)] ==
        IF c = 0 THEN <<<<>>, <<>>>>
        ELSE With([before \in {limbs[c - 1]} |->
               NDivLimb(a, b, Len(a) - c + 1, before)])
  IN  limbs[Len(a)]

\* one step of the square root: r with bit k set if the square still fits a
NSqrtStep(a, r, k) ==
  With([c \in {NAdd(r, NShl(<<1>>, k))} |->
  With([square \in {NMul(c, c)} |->
    IF NCmp(square, a) <= 0 THEN c ELSE r])])

\* the result bits of limb l tried, the high one first, onto r: bits[k] is the
\* result after k of them
NSqrtLimb(a, l, r) ==
  LET bits[k \in 0..LimbBits] ==
        IF k = 0 THEN r
        ELSE With([before \in {bits[k - 1]} |->
               NSqrtStep(a, before, l * LimbBits - k)])
  IN  bits[LimbBits]

\* floor(sqrt(a)), one result bit a step: limbs[c] is the result with its high c
\* limbs settled
NSqrt(a) ==
  LET n == (Len(a) + 1) \div 2
      limbs[c \in 0..n] ==
        IF c = 0 THEN <<>>
        ELSE With([before \in {limbs[c - 1]} |->
               NSqrtLimb(a, n - c + 1, before)])
  IN  limbs[n]

(***************************************************************************)
(* Python int: sign and magnitude, [neg |-> FALSE, mag |-> <<>>] is 0.     *)
(***************************************************************************)
Z(neg, mag) == [neg |-> neg /\ mag # <<>>, mag |-> mag]

ZFromInt(n) == IF n < 0 THEN Z(TRUE, NFromInt(-n)) ELSE Z(FALSE, NFromInt(n))

ZAdd(a, b) ==
  IF a.neg = b.neg THEN Z(a.neg, NAdd(a.mag, b.mag))
  ELSE IF NCmp(a.mag, b.mag) >= 0 THEN Z(a.neg, NSub(a.mag, b.mag))
  ELSE Z(b.neg, NSub(b.mag, a.mag))

ZMul(a, b) == Z(a.neg # b.neg, NMul(a.mag, b.mag))

\* i & 0xFFFFFFFF: the residue of i modulo 2^32 (two's complement low 32 bits)
ZAnd32(i) ==
  With([r \in {NTrunc(i.mag, 32)} |->
    IF i.neg /\ r # <<>> THEN NSub(NShl(<<1>>, 32), r) ELSE r])

(***************************************************************************)
(* Python float (binary64): [s, m, e] is (-1)^s * m * 2^e, m odd, and      *)
(* [s, <<>>, 0] is the zero of sign s.                                     *)
(***************************************************************************)
DZero(s) == [s |-> s, m |-> <<>>, e |-> 0]

DCanon(s, m, e) ==
  IF m = <<>> THEN DZero(s)
  ELSE With([tz \in {NTz(m)} |-> [s |-> s, m |-> NShr(m, tz), e |-> e + tz]])

\* m * 2^e (and, with sticky, a little more) rounded to nearest, ties to even, at
\* 53 significant bits and never below the quantum 2^-1074
DRound(s, m, e, sticky) ==
  With([drop \in {Max2(Max2(NBitLen(m) - 53, (-1074) - e), 0)} |->
  With([q \in {NShr(m, drop)} |->
  \* the bits dropped are more than half a unit of q, or half of one and q is odd
  With([up \in {/\ drop > 0
               /\ NBit(m, drop - 1) = 1
               /\ (sticky \/ NIsOdd(q) \/ NTrunc(m, drop - 1) # <<>>)} |->
    DCanon(s, IF up THEN NAdd(q, <<1>>) ELSE q, e + drop)])])])

DFromInt(n) == DCanon(IF n < 0 THEN 1 ELSE 0, NFromInt(IF n < 0 THEN -n ELSE n), 0)

\* float(i) for an int i
ZToDouble(i) == DRound(IF i.neg THEN 1 ELSE 0, i.mag, 0, FALSE)

DNeg(x) == [x EXCEPT !.s = 1 - x.s]

DAdd(x, y) ==
  IF x.m = <<>> /\ y.m = <<>> THEN DZero(IF x.s = 1 /\ y.s = 1 THEN 1 ELSE 0)
  ELSE IF x.m = <<>> THEN y
  ELSE IF y.m = <<>> THEN x
  ELSE LET e == IF x.e <= y.e THEN x.e ELSE y.e
       IN  With([a \in {NShl(x.m, x.e - e)} |->
           With([b \in {NShl(y.m, y.e - e)} |->
           With([c \in {NCmp(a, b)} |->
             IF x.s # y.s /\ c = 0 THEN DZero(0)
             ELSE DRound(IF x.s = y.s \/ c > 0 THEN x.s ELSE y.s,
                         IF x.s = y.s THEN NAdd(a, b)
                         ELSE IF c > 0 THEN NSub(a, b) ELSE NSub(b, a),
                         e, FALSE)])])])

DSub(x, y) == DAdd(x, DNeg(y))

DMul(x, y) ==
  LET s == IF x.s = y.s THEN 0 ELSE 1
  IN  IF x.m = <<>> \/ y.m = <<>> THEN DZero(s)
      ELSE With([product \in {NMul(x.m, y.m)} |->
             DRound(s, product, x.e + y.e, FALSE)])

\* x / y for y # 0
DDiv(x, y) ==
  LET s == IF x.s = y.s THEN 0 ELSE 1
      k == Max2(0, 55 + NBitLen(y.m) - NBitLen(x.m))
  IN  IF x.m = <<>> THEN DZero(s)
      ELSE With([big \in {NShl(x.m, k)} |->
           With([qr \in {NDivMod(big, y.m)} |->
             DRound(s, qr[1], x.e - y.e - k, qr[2] # <<>>)])])

\* math.sqrt(x) for x >= 0
DSqrt(x) ==
  LET odd == x.e % 2 = 1
      e2 == IF odd THEN x.e - 1 ELSE x.e
  IN  IF x.m = <<>> THEN x
      ELSE With([m2 \in {IF odd THEN NShl(x.m, 1) ELSE x.m} |->
           With([j \in {Max2(0, (111 - NBitLen(m2)) \div 2)} |->
           With([big \in {NShl(m2, 2 * j)} |->
           With([r \in {NSqrt(big)} |->
           With([inexact \in {NMul(r, r) # big} |->
             DRound(0, r, (e2 \div 2) - j, inexact)])])])])])

\* -1, 0, 1 as x < y, x == y, x > y (the two zeros are equal)
DCmp(x, y) ==
  LET sx == IF x.m = <<>> THEN 0 ELSE IF x.s = 1 THEN -1 ELSE 1
      sy == IF y.m = <<>> THEN 0 ELSE IF y.s = 1 THEN -1 ELSE 1
      e == IF x.e <= y.e THEN x.e ELSE y.e
      c == NCmp(NShl(x.m, x.e - e), NShl(y.m, y.e - e))
  IN  IF sx # sy THEN (IF sx < sy THEN -1 ELSE 1)
      ELSE IF sx = 0 THEN 0
      ELSE sx * c

DLt(x, y) == DCmp(x, y) < 0
DLe(x, y) == DCmp(x, y) <= 0
DEq(x, y) == DCmp(x, y) = 0

\* Python's min(a, b) and max(a, b): the first argument unless the second beats it
PyMin(a, b) == IF DLt(b, a) THEN b ELSE a
PyMax(a, b) == IF DLt(a, b) THEN b ELSE a

\* math.floor(x): an int
DFloor(x) ==
  IF x.m = <<>> THEN Z(FALSE, <<>>)
  ELSE IF x.e >= 0 THEN Z(x.s = 1, NShl(x.m, x.e))
  ELSE IF x.s = 0 THEN Z(FALSE, NShr(x.m, -x.e))
  ELSE Z(TRUE, NAdd(NShr(x.m, -x.e), <<1>>))

\* int(x): truncation toward zero
DTrunc(x) ==
  IF x.m = <<>> THEN Z(FALSE, <<>>)
  ELSE IF x.e >= 0 THEN Z(x.s = 1, NShl(x.m, x.e))
  ELSE Z(x.s = 1, NShr(x.m, -x.e))


(***************************************************************************)
(* noise.py: numeric literals.                                             *)
(***************************************************************************)
\* a 32-bit literal from its two 16-bit halves
Hex32(hi, lo) == NAdd(NShl(NFromInt(hi), 16), NFromInt(lo))

Mask32 == Hex32(65535, 65535)        \* 0xFFFFFFFF
Mul1 == Hex32(32747, 13613)          \* 0x7feb352d
Mul2 == Hex32(33900, 42635)          \* 0x846ca68b
SeedMulX == Hex32(40503, 31153)      \* 0x9e3779b1
SeedMulY == Hex32(34283, 51819)      \* 0x85ebca6b
WorleyXor == Hex32(26812, 8683)      \* 0x68BC21EB

\* a decimal literal n / 10^k, correctly rounded as the parser rounds it
Dec(n, k) == DDiv(DFromInt(n), DFromInt(10^k))

DOne == DFromInt(1)
DNil == DFromInt(0)
DHalf == [s |-> 0, m |-> <<1>>, e |-> -1]       \* 0.5 is 2^-1
ZOne == ZFromInt(1)

(***************************************************************************)
(* Utility functions.                                                      *)
(***************************************************************************)
\* x & 0xFFFFFFFF for x >= 0: the low 32 bits
And32(x) == NTrunc(x, 32)

hash32(x) ==
  With([x1 \in {And32(x)} |->
  With([x2 \in {NXor(x1, NShr(x1, 16))} |->
  With([x3 \in {And32(NMul(x2, Mul1))} |->
  With([x4 \in {NXor(x3, NShr(x3, 15))} |->
  With([x5 \in {And32(NMul(x4, Mul2))} |->
  With([x6 \in {NXor(x5, NShr(x5, 16))} |->
    And32(x6)])])])])])])

\* x, y and seed are ints of any sign and size.  (y ^ s) & 0xFFFFFFFF is the xor of
\* the two residues modulo 2^32, Python's ints being two's complement.
hash2d(x, y, seed) ==
  With([h0 \in {ZAnd32(ZAdd(x, ZMul(seed, Z(FALSE, SeedMulX))))} |->
  With([k0 \in {NXor(ZAnd32(y), ZAnd32(ZMul(seed, Z(FALSE, SeedMulY))))} |->
  With([h \in {hash32(h0)} |->
  With([k \in {hash32(k0)} |->
    hash32(NXor(h, k))])])])])

\* a variant that divides by 2^31: its values reach 2
to_unit_double_over_half_range(v) ==
  DDiv(ZToDouble(Z(FALSE, v)), ZToDouble(Z(FALSE, NShl(<<1>>, 31))))

to_unit_double(v) == DDiv(ZToDouble(Z(FALSE, v)), ZToDouble(Z(FALSE, Mask32)))

lerp(a, b, t) ==
  With([d \in {DSub(b, a)} |->
  With([p \in {DMul(t, d)} |->
    DAdd(a, p)])])

\* a variant that runs the other way: 1 at t = 0 and 0 at t = 1
fade_complement(t) == DSub(DOne, t)

\* t * t * t * (t * (t * 6 - 15) + 10), the products taken left to right
fade(t) ==
  With([t2 \in {DMul(t, t)} |->
  With([t3 \in {DMul(t2, t)} |->
  With([a \in {DMul(t, DFromInt(6))} |->
  With([b \in {DSub(a, DFromInt(15))} |->
  With([c \in {DMul(t, b)} |->
  With([d \in {DAdd(c, DFromInt(10))} |->
    DMul(t3, d)])])])])])])

(***************************************************************************)
(* ValueNoise2D.  A component is its configuration; seed is an int.        *)
(***************************************************************************)
ValueLattice(seed, ix, iy) ==
  With([h \in {hash2d(ix, iy, seed)} |->
    to_unit_double(h)])

ValueSample(seed, x, y) ==
  With([x0 \in {DFloor(x)} |->
  With([y0 \in {DFloor(y)} |->
  With([x1 \in {ZAdd(x0, ZOne)} |->
  With([y1 \in {ZAdd(y0, ZOne)} |->
  With([fx \in {DSub(x, ZToDouble(x0))} |->
  With([fy \in {DSub(y, ZToDouble(y0))} |->
  \* v00, v10, v01 and v11: corner[i, j] is the lattice value at (xi, yj)
  With([corner \in {[i \in 0..1, j \in 0..1 |->
          ValueLattice(seed, IF i = 0 THEN x0 ELSE x1, IF j = 0 THEN y0 ELSE y1)]} |->
  With([u \in {fade(fx)} |->
  With([v \in {fade(fy)} |->
  With([vx0 \in {lerp(corner[0, 0], corner[1, 0], u)} |->
  With([vx1 \in {lerp(corner[0, 1], corner[1, 1], u)} |->
    lerp(vx0, vx1, v)])])])])])])])])])])])

(***************************************************************************)
(* PerlinNoise2D.                                                          *)
(***************************************************************************)
Diag == Dec(70710678, 8)

PerlinGradients ==
  With([d \in {Diag} |->
    << <<DFromInt(1), DFromInt(0)>>,
       <<DFromInt(-1), DFromInt(0)>>,
       <<DFromInt(0), DFromInt(1)>>,
       <<DFromInt(0), DFromInt(-1)>>,
       <<d, d>>,
       <<DNeg(d), d>>,
       <<d, DNeg(d)>>,
       <<DNeg(d), DNeg(d)>> >>])

\* h & 7 picks the gradient; the tuple is indexed from 1
PerlinGradient(seed, ix, iy) ==
  With([h \in {hash2d(ix, iy, seed)} |->
    PerlinGradients[NToInt(NTrunc(h, 3)) + 1]])

\* a variant that leaves the displacement out: gx + gy
PerlinDotGridGradient_undisplaced(seed, ix, iy, x, y) ==
  With([g \in {PerlinGradient(seed, ix, iy)} |->
    DAdd(g[1], g[2])])

PerlinDotGridGradient(seed, ix, iy, x, y) ==
  With([g \in {PerlinGradient(seed, ix, iy)} |->
  With([dx \in {DSub(x, ZToDouble(ix))} |->
  With([dy \in {DSub(y, ZToDouble(iy))} |->
  With([gxdx \in {DMul(g[1], dx)} |->
  With([gydy \in {DMul(g[2], dy)} |->
    DAdd(gxdx, gydy)])])])])])

\* v, the value before the clamp
PerlinRaw(seed, x, y) ==
  With([x0 \in {DFloor(x)} |->
  With([y0 \in {DFloor(y)} |->
  With([x1 \in {ZAdd(x0, ZOne)} |->
  With([y1 \in {ZAdd(y0, ZOne)} |->
  With([sx \in {fade(DSub(x, ZToDouble(x0)))} |->
  With([sy \in {fade(DSub(y, ZToDouble(y0)))} |->
  \* n00, n10, n01 and n11: corner[i, j] is the dot product at (xi, yj)
  With([corner \in {[i \in 0..1, j \in 0..1 |->
          PerlinDotGridGradient(seed, IF i = 0 THEN x0 ELSE x1,
                                IF j = 0 THEN y0 ELSE y1, x, y)]} |->
  With([ix0 \in {lerp(corner[0, 0], corner[1, 0], sx)} |->
  With([ix1 \in {lerp(corner[0, 1], corner[1, 1], sx)} |->
  With([value \in {lerp(ix0, ix1, sy)} |->
  With([half \in {DMul(value, DHalf)} |->
    DAdd(half, DHalf)])])])])])])])])])])])

\* max(0.0, min(1.0, v))
Clamp01(v) == PyMax(DNil, PyMin(DOne, v))

PerlinSample(seed, x, y) ==
  With([v \in {PerlinRaw(seed, x, y)} |->
    Clamp01(v)])

(***************************************************************************)
(* WorleyNoise2D.                                                          *)
(***************************************************************************)
WorleyFeaturePoint(seed, ix, iy) ==
  With([h \in {hash2d(ix, iy, seed)} |->
  With([hx \in {hash32(h)} |->
  With([hy \in {hash32(NXor(h, WorleyXor))} |->
  With([fx \in {to_unit_double(hx)} |->
  With([fy \in {to_unit_double(hy)} |->
    <<DAdd(ZToDouble(ix), fx), DAdd(ZToDouble(iy), fy)>>])])])])])

\* the squared distance from (x, y) to the feature point of cell (cx, cy)
WorleyDist2(seed, cx, cy, x, y) ==
  With([p \in {WorleyFeaturePoint(seed, cx, cy)} |->
  With([dx \in {DSub(p[1], x)} |->
  With([dy \in {DSub(p[2], y)} |->
  With([dx2 \in {DMul(dx, dx)} |->
  With([dy2 \in {DMul(dy, dy)} |->
    DAdd(dx2, dy2)])])])])])

\* a variant whose loops run over range(0, 3)
WorleyCell_forward(x_int, y_int, n) ==
  <<ZAdd(x_int, ZFromInt(n % 3)), ZAdd(y_int, ZFromInt(n \div 3))>>

\* the nested loops, j outer and i inner, as one index n = 0..8: the cell the
\* n-th pass looks at
WorleyCell(x_int, y_int, n) ==
  <<ZAdd(x_int, ZFromInt((n % 3) - 1)), ZAdd(y_int, ZFromInt((n \div 3) - 1))>>

\* a variant that never takes a d2
WorleyScan_keeping(d2s, start) == start

\* if d2 < min_dist2: min_dist2 = d2, pass after pass: d2s[n] is the d2 of pass
\* n - 1 and min_dist2[n] the minimum after it
WorleyScan(d2s, start) ==
  LET min_dist2[n \in 0..Len(d2s)] ==
        IF n = 0 THEN start
        ELSE With([before \in {min_dist2[n - 1]} |->
               IF DLt(d2s[n], before) THEN d2s[n] ELSE before])
  IN  min_dist2[Len(d2s)]

WorleyMinDist2(seed, x, y) ==
  With([x_int \in {DFloor(x)} |->
  With([y_int \in {DFloor(y)} |->
  With([d2s \in {[k \in 1..9 |->
          With([c \in {WorleyCell(x_int, y_int, k - 1)} |->
            WorleyDist2(seed, c[1], c[2], x, y)])]} |->
    WorleyScan(d2s, DFromInt(10^9))])])])

Sqrt3 == DSqrt(DFromInt(3))

\* the locals of sample when it returns: min_dist2, v before the clamp, and the
\* value returned
WorleyRun(seed, x, y) ==
  With([min_dist2 \in {WorleyMinDist2(seed, x, y)} |->
  With([d \in {DSqrt(min_dist2)} |->
  With([v \in {DDiv(d, Sqrt3)} |->
    [min_dist2 |-> min_dist2, v |-> v, ret |-> Clamp01(v)]])])])

WorleySample(seed, x, y) == WorleyRun(seed, x, y).ret

(***************************************************************************)
(* Calls return a value or raise.                                          *)
(***************************************************************************)
Ok(v) == [ok |-> TRUE, val |-> v]

Raised(exc) == [ok |-> FALSE, exc |-> exc]

(***************************************************************************)
(* The components.  A name not yet bound to a component holds Unbound.     *)
(***************************************************************************)
Unbound == [class |-> "None"]

ValueNoise2D(seed) == [class |-> "ValueNoise2D", seed |-> seed]

PerlinNoise2D(seed) == [class |-> "PerlinNoise2D", seed |-> seed]

WorleyNoise2D(seed) == [class |-> "WorleyNoise2D", seed |-> seed]

\* __init__ stores its four arguments; it checks none of them
FBMValueNoise2D(seed, octaves, lacunarity, gain) ==
  [class |-> "FBMValueNoise2D", base |-> ValueNoise2D(seed), octaves |-> octaves,
   lacunarity |-> lacunarity, gain |-> gain]

(***************************************************************************)
(* FBMValueNoise2D.sample.                                                 *)
(***************************************************************************)
\* the locals amp, freq, total and amp_sum after each pass of the loop
FBMLoop(self, x, y) ==
  LET pass[i \in 0..Max2(self.octaves, 0)] ==
        IF i = 0
        THEN [amp |-> DOne, freq |-> DOne, total |-> DNil, amp_sum |-> DNil]
        ELSE With([before \in {pass[i - 1]} |->
             With([base \in {ValueSample(self.base.seed, DMul(x, before.freq),
                              DMul(y, before.freq))} |->
               [amp |-> DMul(before.amp, self.gain),
                freq |-> DMul(before.freq, self.lacunarity),
                total |-> DAdd(before.total, DMul(base, before.amp)),
                amp_sum |-> DAdd(before.amp_sum, before.amp)]])])
  IN  pass[Max2(self.octaves, 0)]

\* total / amp_sum raises ZeroDivisionError when amp_sum is zero
FBMSample(self, x, y) ==
  With([end \in {FBMLoop(self, x, y)} |->
    IF end.amp_sum.m = <<>> THEN Raised("ZeroDivisionError")
    ELSE Ok(DDiv(end.total, end.amp_sum))])

(***************************************************************************)
(* save_noise_image.  The file is the sequence of the bytes written.       *)
(***************************************************************************)
\* noise.sample(x, y), whatever the class of noise
NoiseSample(noise, x, y) ==
  CASE noise.class = "ValueNoise2D" -> Ok(ValueSample(noise.seed, x, y))
    [] noise.class = "FBMValueNoise2D" -> FBMSample(noise, x, y)
    [] noise.class = "PerlinNoise2D" -> Ok(PerlinSample(noise.seed, x, y))
    [] noise.class = "WorleyNoise2D" -> Ok(WorleySample(noise.seed, x, y))

\* the body of the inner loop: the byte written for the pixel (x, y), unless
\* sample raises
PixelByte(noise, scale, x, y) ==
  With([nx \in {DMul(DFromInt(x), scale)} |->
  With([ny \in {DMul(DFromInt(y), scale)} |->
  With([sampled \in {NoiseSample(noise, nx, ny)} |->
    IF sampled.ok
    THEN Ok(NToInt(DTrunc(DMul(Clamp01(sampled.val), DFromInt(255))).mag))
    ELSE sampled])])])

\* the ASCII codes of the decimal digits of i >= 0, as the f-string renders it
AsciiDecimal(i) ==
  LET digits[k \in 0..i] ==
        IF k < 10 THEN <<48 + k>> ELSE digits[k \div 10] \o <<48 + (k % 10)>>
  IN  digits[i]

\* f"P5\n{width} {height}\n255\n".encode("ascii")
PgmHeader(width, height) ==
  <<80, 53, 10>> \o AsciiDecimal(width) \o <<32>> \o AsciiDecimal(height)
    \o <<10, 50, 53, 53, 10>>

(***************************************************************************)
(* The calls made: the seeds, the fBm parameters, the coordinates and the  *)
(* image sizes.                                                            *)
(***************************************************************************)
MaxOctaves == 2
MaxW == 2
MaxH == 2

Seeds == {ZFromInt(0), ZFromInt(1234)}

Octaves == 0..MaxOctaves
Lacunarities == {DFromInt(2)}
Gains == {DHalf, DFromInt(-1)}

\* 2^k as a float
DPow2(k) == [s |-> 0, m |-> <<1>>, e |-> k]

\* 2^53 as an int: above it not every int is a float
TwoTo53 == Z(FALSE, NShl(<<1>>, 53))

\* (10.0, 20.0), on the lattice
PointOnLattice == <<DFromInt(10), DFromInt(20)>>

\* (3.0, -4.0), on the lattice, one coordinate negative
PointBelowZero == <<DFromInt(3), DFromInt(-4)>>

\* (-0.0, 2^53 + 10), on the lattice, a negative zero and a large coordinate
PointFarOut == <<DZero(1), ZToDouble(ZAdd(TwoTo53, ZFromInt(10)))>>

\* (0.5, 0.25), inside a cell
PointInside == <<DHalf, DPow2(-2)>>

\* (-2^-53, 0.0): x - floor(x) is 1 - 2^-53, the largest float below 1
PointJustBelowZero == <<DNeg(DPow2(-53)), DNil>>

\* (-3.5, 2.75), inside a cell of negative x
PointInsideLeft == <<DNeg(DCanon(0, <<7>>, -1)), DCanon(0, <<11>>, -2)>>

\* (2^53 + 10, 2^53 + 2582527030), where the floats are the even integers
PointBeyond53 ==
  <<ZToDouble(ZAdd(TwoTo53, ZFromInt(10))),
    ZToDouble(ZAdd(TwoTo53, Z(FALSE, Hex32(39406, 15414))))>>

Points == {PointOnLattice, PointBelowZero, PointFarOut, PointInside, PointJustBelowZero}

FBMPoints == {PointInside, PointJustBelowZero}

WorleyPoints == {PointInside, PointInsideLeft, PointBeyond53}

\* the cell (0, 1917678968): with seed 0 its x offset is exactly 1.0
CellOffsetOne == <<ZFromInt(0), Z(FALSE, Hex32(29261, 30072))>>

\* the cell (2^53 + 1, 0): 2^53 + 1 is not a float
CellBeyond53 == <<ZAdd(TwoTo53, ZOne), ZFromInt(0)>>

\* the cell (2^54 + 2, 0): 2^54 + 2 is not a float, and the floats next to it are
\* 4 apart
CellBeyond54 == <<ZAdd(ZAdd(TwoTo53, TwoTo53), ZFromInt(2)), ZFromInt(0)>>

\* with them (0, 0), (-1, 2) and (0, 2578827148), whose y offset is 1.0 with seed 0
Cells ==
  { <<ZFromInt(0), ZFromInt(0)>>,
    <<ZFromInt(-1), ZFromInt(2)>>,
    CellOffsetOne,
    <<ZFromInt(0), Z(FALSE, Hex32(39349, 51084))>>,
    CellBeyond53,
    CellBeyond54 }

Scales == {DOne}

ValueNoises == {ValueNoise2D(seed) : seed \in Seeds}
PerlinNoises == {PerlinNoise2D(seed) : seed \in Seeds}
WorleyNoises == {WorleyNoise2D(seed) : seed \in Seeds}
FBMNoises ==
  {FBMValueNoise2D(seed, octaves, lacunarity, gain) :
     seed \in Seeds, octaves \in Octaves, lacunarity \in Lacunarities, gain \in Gains}

(***************************************************************************)
(* What each of the calls made returns.  The functions below are the       *)
(* operators above applied to every argument of the sets above, once.      *)
(***************************************************************************)
ValueSamples == [seed \in Seeds, p \in Points |-> ValueSample(seed, p[1], p[2])]

PerlinSamples == [seed \in Seeds, p \in Points |-> PerlinSample(seed, p[1], p[2])]

FBMSamples == [self \in FBMNoises, p \in FBMPoints |-> FBMSample(self, p[1], p[2])]

FeaturePoints ==
  [seed \in Seeds, cell \in Cells |-> WorleyFeaturePoint(seed, cell[1], cell[2])]

WorleyRuns ==
  [seed \in Seeds |->
     [p \in WorleyPoints \cup {FeaturePoints[seed, cell] : cell \in Cells} |->
        WorleyRun(seed, p[1], p[2])]]

PixelBytes ==
  [noise \in ValueNoises \cup FBMNoises \cup PerlinNoises \cup WorleyNoises,
   scale \in Scales, x \in 0..(MaxW - 1), y \in 0..(MaxH - 1) |->
     PixelByte(noise, scale, x, y)]

\* the with block of save_noise_image: the bytes in the file when the block is
\* left, and how it is left.  Pixel k (from 1) is column (k - 1) % width of row
\* (k - 1) \div width; a sample that raises ends the loops there.
save_noise_image(noise, width, height, scale) ==
  With([pixels \in {[k \in 1..(width * height) |->
          PixelBytes[noise, scale, (k - 1) % width, (k - 1) \div width]]} |->
  With([raising \in {{k \in 1..(width * height) : ~pixels[k].ok}} |->
    IF raising = {}
    THEN [file |-> PgmHeader(width, height)
                     \o [k \in 1..(width * height) |-> pixels[k].val],
          ret |-> Ok("None")]
    ELSE [file |-> PgmHeader(width, height)
                     \o [k \in 1..(MinOf(raising) - 1) |-> pixels[k].val],
          ret |-> pixels[MinOf(raising)]]])])

(***************************************************************************)
(* The state: the four names main binds to components, each bound once,    *)
(* and the last call made on one of them with what it returned.            *)
(***************************************************************************)
vars == <<value_noise, fbm_value_noise, perlin_noise, worley_noise, last>>

Init ==
  /\ value_noise = Unbound
  /\ fbm_value_noise = Unbound
  /\ perlin_noise = Unbound
  /\ worley_noise = Unbound
  /\ last = [op |-> "None"]

ConstructValue(seed) ==
  /\ value_noise = Unbound
  /\ value_noise' = ValueNoise2D(seed)
  /\ UNCHANGED <<fbm_value_noise, perlin_noise, worley_noise, last>>

ConstructFBM(seed, octaves, lacunarity, gain) ==
  /\ fbm_value_noise = Unbound
  /\ fbm_value_noise' = FBMValueNoise2D(seed, octaves, lacunarity, gain)
  /\ UNCHANGED <<value_noise, perlin_noise, worley_noise, last>>

ConstructPerlin(seed) ==
  /\ perlin_noise = Unbound
  /\ perlin_noise' = PerlinNoise2D(seed)
  /\ UNCHANGED <<value_noise, fbm_value_noise, worley_noise, last>>

ConstructWorley(seed) ==
  /\ worley_noise = Unbound
  /\ worley_noise' = WorleyNoise2D(seed)
  /\ UNCHANGED <<value_noise, fbm_value_noise, perlin_noise, last>>

SampleValue(p) ==
  /\ value_noise # Unbound
  /\ last' = [op |-> "ValueNoise2D.sample", obj |-> value_noise, args |-> p,
              ret |-> Ok(ValueSamples[value_noise.seed, p])]
  /\ UNCHANGED <<value_noise, fbm_value_noise, perlin_noise, worley_noise>>

\* a variant that uses its octaves up
SampleFBM_consuming(p) ==
  /\ fbm_value_noise # Unbound
  /\ last' = [op |-> "FBMValueNoise2D.sample", obj |-> fbm_value_noise, args |-> p,
              ret |-> FBMSamples[fbm_value_noise, p]]
  /\ fbm_value_noise' = [fbm_value_noise EXCEPT !.octaves = 0]
  /\ UNCHANGED <<value_noise, perlin_noise, worley_noise>>

SampleFBM(p) ==
  /\ fbm_value_noise # Unbound
  /\ last' = [op |-> "FBMValueNoise2D.sample", obj |-> fbm_value_noise, args |-> p,
              ret |-> FBMSamples[fbm_value_noise, p]]
  /\ UNCHANGED <<value_noise, fbm_value_noise, perlin_noise, worley_noise>>

SamplePerlin(p) ==
  /\ perlin_noise # Unbound
  /\ last' = [op |-> "PerlinNoise2D.sample", obj |-> perlin_noise, args |-> p,
              ret |-> Ok(PerlinSamples[perlin_noise.seed, p])]
  /\ UNCHANGED <<value_noise, fbm_value_noise, perlin_noise, worley_noise>>

FeaturePoint(cell) ==
  /\ worley_noise # Unbound
  /\ last' = [op |-> "WorleyNoise2D._feature_point", obj |-> worley_noise,
              args |-> cell, ret |-> Ok(FeaturePoints[worley_noise.seed, cell])]
  /\ UNCHANGED <<value_noise, fbm_value_noise, perlin_noise, worley_noise>>

\* the point _feature_point has just returned for this component, if it has
ReturnedFeaturePoint ==
  IF last.op = "WorleyNoise2D._feature_point" /\ last.obj = worley_noise
  THEN {last.ret.val}
  ELSE {}

\* of_cell is the cell whose feature point the coordinates are, when they are
\* the point _feature_point has just returned
SampleWorley(p) ==
  /\ worley_noise # Unbound
  /\ last' = With([run \in {WorleyRuns[worley_noise.seed][p]} |->
               [op |-> "WorleyNoise2D.sample", obj |-> worley_noise, args |-> p,
                of_cell |-> IF p \in ReturnedFeaturePoint THEN last.args ELSE <<>>,
                min_dist2 |-> run.min_dist2, v |-> run.v, ret |-> Ok(run.ret)]])
  /\ UNCHANGED <<value_noise, fbm_value_noise, perlin_noise, worley_noise>>

SaveNoiseImage(noise, width, height, scale) ==
  /\ noise # Unbound
  /\ last' = With([left \in {save_noise_image(noise, width, height, scale)} |->
               [op |-> "save_noise_image", obj |-> noise,
                args |-> <<width, height, scale>>,
                file |-> left.file, ret |-> left.ret]])
  /\ UNCHANGED <<value_noise, fbm_value_noise, perlin_noise, worley_noise>>

Next ==
  \/ \E seed \in Seeds : ConstructValue(seed)
  \/ \E seed \in Seeds, octaves \in Octaves, lacunarity \in Lacunarities, gain \in Gains :
       ConstructFBM(seed, octaves, lacunarity, gain)
  \/ \E seed \in Seeds : ConstructPerlin(seed)
  \/ \E seed \in Seeds : ConstructWorley(seed)
  \/ \E p \in Points : SampleValue(p)
  \/ \E p \in FBMPoints : SampleFBM(p)
  \/ \E p \in Points : SamplePerlin(p)
  \/ \E cell \in Cells : FeaturePoint(cell)
  \/ \E p \in WorleyPoints \cup ReturnedFeaturePoint : SampleWorley(p)
  \/ \E noise \in {value_noise, fbm_value_noise, perlin_noise, worley_noise},
        width \in 0..MaxW, height \in 0..MaxH, scale \in Scales :
       SaveNoiseImage(noise, width, height, scale)

Spec == Init /\ [][Next]_vars

(***************************************************************************)
(* The claims.                                                             *)
(***************************************************************************)
InUnit(v) == DLe(DNil, v) /\ DLe(v, DOne)

\* x is a float with an integer value
IsIntegral(x) == x.m = <<>> \/ x.e >= 0

\* the int i as the exact value it is, not rounded to a float
ZExact(i) == DCanon(IF i.neg THEN 1 ELSE 0, i.mag, 0)

\* |i| < 2^53 for an int i, |x| < 2^53 for a float x
IntBelow53(i) == NCmp(i.mag, TwoTo53.mag) < 0

FloatBelow53(x) == DLt([x EXCEPT !.s = 0], ZExact(TwoTo53))

SampleOps ==
  {"ValueNoise2D.sample", "FBMValueNoise2D.sample", "PerlinNoise2D.sample",
   "WorleyNoise2D.sample"}

\* what the configuration and the coordinates of a sample call alone make it
\* return
SampleReturns(call) ==
  CASE call.op = "ValueNoise2D.sample" -> Ok(ValueSamples[call.obj.seed, call.args])
    [] call.op = "FBMValueNoise2D.sample" -> FBMSamples[call.obj, call.args]
    [] call.op = "PerlinNoise2D.sample" -> Ok(PerlinSamples[call.obj.seed, call.args])
    [] call.op = "WorleyNoise2D.sample" -> Ok(WorleyRuns[call.obj.seed][call.args].ret)

\* to_unit_double(hash2d(ix, iy, seed)) at the points of the lattice
LatticeValues ==
  [seed \in Seeds, p \in {q \in Points : IsIntegral(q[1]) /\ IsIntegral(q[2])} |->
     ValueLattice(seed, DFloor(p[1]), DFloor(p[2]))]

\* the number the decimal digits spell
DecimalValue(codes) ==
  LET spelt[k \in 0..Len(codes)] ==
        IF k = 0 THEN 0 ELSE 10 * spelt[k - 1] + (codes[k] - 48)
  IN  spelt[Len(codes)]

\* C1: an fBm component with octaves = 0 is rejected at construction: the name is
\* never bound to one, and no sample call of one raises on the division by
\* amp_sum = 0.
C1_OctavesZeroRejected ==
  /\ ~(fbm_value_noise # Unbound /\ fbm_value_noise.octaves = 0)
  /\ ~(last.op = "FBMValueNoise2D.sample" /\ last.obj.octaves = 0 /\ ~last.ret.ok)

\* C2: for every seed and every (x, y), the sample of ValueNoise2D, of
\* PerlinNoise2D and of WorleyNoise2D returns a value v with 0 <= v <= 1.
C2_SampleInUnitInterval ==
  last.op \in {"ValueNoise2D.sample", "PerlinNoise2D.sample", "WorleyNoise2D.sample"}
    => InUnit(last.ret.val)

\* C3: for every fBm component with octaves >= 1, whatever its gain and
\* lacunarity, sample returns total / amp_sum within [0, 1] and the division
\* never fails.
C3_FBMInUnitInterval ==
  (last.op = "FBMValueNoise2D.sample" /\ last.obj.octaves >= 1)
    => (last.ret.ok /\ InUnit(last.ret.val))

\* a step that is a sample call: it leaves the record of itself in last
SampleCalled ==
  /\ last'.op \in SampleOps
  /\ (last'.op # last.op \/ last'.args # last.args)

\* C4: a sample call changes no component (no seed, and none of fBm's octaves,
\* lacunarity, gain and base), whatever calls on whatever components came before
\* it, and it returns the value that the configuration it is made on and its
\* (x, y) alone determine.
C4_SamplingChangesNothing ==
  [][SampleCalled
       => /\ value_noise' = value_noise
          /\ fbm_value_noise' = fbm_value_noise
          /\ perlin_noise' = perlin_noise
          /\ worley_noise' = worley_noise
          /\ last'.obj \in {value_noise, fbm_value_noise, perlin_noise, worley_noise}
          /\ last'.ret = SampleReturns(last')]_vars

\* a Worley sample after a sample on each of the other three components bound
C4_Witness ==
  /\ value_noise # Unbound
  /\ fbm_value_noise # Unbound
  /\ perlin_noise # Unbound
  /\ last.op = "WorleyNoise2D.sample"
  /\ last.obj = worley_noise

\* C5: for every seed and all integers ix, iy, negative ones too,
\* ValueNoise2D(seed).sample(ix, iy) equals to_unit_double(hash2d(ix, iy, seed)):
\* the three other corners contribute nothing.
C5_ValueLatticeAgreement ==
  (last.op = "ValueNoise2D.sample" /\ IsIntegral(last.args[1]) /\ IsIntegral(last.args[2]))
    => DEq(last.ret.val, LatticeValues[last.obj.seed, last.args])

\* seed 1234, sample(10.0, 20.0)
C5_Witness ==
  /\ last.op = "ValueNoise2D.sample"
  /\ last.obj.seed = ZFromInt(1234)
  /\ last.args = PointOnLattice
  /\ last.ret.val = LatticeValues[ZFromInt(1234), PointOnLattice]

\* C6: for every seed and all integers ix, iy, PerlinNoise2D(seed).sample(ix, iy)
\* is 0.5.
C6_PerlinLatticeHalf ==
  (last.op = "PerlinNoise2D.sample" /\ IsIntegral(last.args[1]) /\ IsIntegral(last.args[2]))
    => DEq(last.ret.val, DHalf)

\* sample(3.0, -4.0)
C6_Witness ==
  /\ last.op = "PerlinNoise2D.sample"
  /\ last.args = PointBelowZero
  /\ last.ret.val = DHalf

\* C7 as stated: for every seed and every cell (ix, iy), sample at the point
\* _feature_point(ix, iy) returned is 0.
C7_SelfDistanceEveryCell ==
  (last.op = "WorleyNoise2D.sample" /\ last.of_cell # <<>>)
    => DEq(last.ret.val, DNil)

\* C7, for the cells whose coordinates are floats one apart: for every seed
\* and every cell (ix, iy) with |ix| < 2^53 and |iy| < 2^53, sample at the
\* point _feature_point(ix, iy) returned is 0, also when an offset is 1 and the
\* floor of the point is ix + 1 or iy + 1.
C7_SelfDistance ==
  (/\ last.op = "WorleyNoise2D.sample"
   /\ last.of_cell # <<>>
   /\ IntBelow53(last.of_cell[1])
   /\ IntBelow53(last.of_cell[2]))
    => DEq(last.ret.val, DNil)

\* the point of the cell whose x offset is 1: its floor is ix + 1, sample is 0
C7_Witness ==
  /\ last.op = "WorleyNoise2D.sample"
  /\ last.of_cell = CellOffsetOne
  /\ DFloor(last.args[1]) = ZAdd(CellOffsetOne[1], ZOne)
  /\ last.ret.val = DNil

\* C8 as stated: for every seed and all integers ix, iy, the point (px, py) that
\* _feature_point(ix, iy) returns has ix <= px <= ix + 1 and iy <= py <= iy + 1.
C8_FeaturePointInCellEveryCell ==
  last.op = "WorleyNoise2D._feature_point"
    => /\ DLe(ZExact(last.args[1]), last.ret.val[1])
       /\ DLe(last.ret.val[1], ZExact(ZAdd(last.args[1], ZOne)))
       /\ DLe(ZExact(last.args[2]), last.ret.val[2])
       /\ DLe(last.ret.val[2], ZExact(ZAdd(last.args[2], ZOne)))

\* C8, for the cells whose coordinates are floats one apart: for every seed
\* and all integers ix, iy with |ix| < 2^53 and |iy| < 2^53, the point (px, py)
\* that _feature_point(ix, iy) returns has ix <= px <= ix + 1 and
\* iy <= py <= iy + 1.
C8_FeaturePointInCell ==
  (/\ last.op = "WorleyNoise2D._feature_point"
   /\ IntBelow53(last.args[1])
   /\ IntBelow53(last.args[2]))
    => /\ DLe(ZExact(last.args[1]), last.ret.val[1])
       /\ DLe(last.ret.val[1], ZExact(ZAdd(last.args[1], ZOne)))
       /\ DLe(ZExact(last.args[2]), last.ret.val[2])
       /\ DLe(last.ret.val[2], ZExact(ZAdd(last.args[2], ZOne)))

\* the point of the cell whose x offset is 1: px is ix + 1, the far edge
C8_Witness ==
  /\ last.op = "WorleyNoise2D._feature_point"
  /\ last.args = CellOffsetOne
  /\ DEq(last.ret.val[1], ZExact(ZAdd(CellOffsetOne[1], ZOne)))
  /\ DLt(ZExact(CellOffsetOne[2]), last.ret.val[2])

\* C9: save_noise_image writes the header P5\n<W> <H>\n255\n and then exactly
\* W * H bytes, row after row, the byte of pixel (px, py) being
\* floor(clamp(noise.sample(px * scale, py * scale), 0, 1) * 255), in 0..255; for
\* a field that is 0.5 everywhere (Perlin noise on the lattice) each is 127.
C9_ExportedRaster ==
  last.op = "save_noise_image"
    => LET width == last.args[1]
           height == last.args[2]
           digits == Len(AsciiDecimal(width)) + Len(AsciiDecimal(height))
           data == SubSeq(last.file, 10 + digits, Len(last.file))
       IN  /\ SubSeq(last.file, 1, 3) = <<80, 53, 10>>
           /\ DecimalValue(SubSeq(last.file, 4, 3 + Len(AsciiDecimal(width)))) = width
           /\ last.file[4 + Len(AsciiDecimal(width))] = 32
           /\ DecimalValue(SubSeq(last.file, 5 + Len(AsciiDecimal(width)), 4 + digits))
                = height
           /\ SubSeq(last.file, 5 + digits, 9 + digits) = <<10, 50, 53, 53, 10>>
           /\ Len(data) = width * height
           /\ \A k \in 1..Len(data) :
                /\ data[k] \in 0..255
                /\ PixelBytes[last.obj, last.args[3], (k - 1) % width, (k - 1) \div width]
                     = Ok(data[k])
                /\ (last.obj.class = "PerlinNoise2D" /\ last.args[3] = DOne)
                     => data[k] = 127

\* C10 as stated: for any seed and any (x, y), the minimum squared distance the
\* scan of WorleyNoise2D.sample finds is at most 2, so d / sqrt(3) is below 1
\* and the clamp to 1.0 does not decide the value returned.
C10_NearestWithinCellEverywhere ==
  last.op = "WorleyNoise2D.sample"
    => /\ DLe(last.min_dist2, DFromInt(2))
       /\ DLt(last.v, DOne)
       /\ DEq(last.ret.val, last.v)

\* C10, where the floats are at most one apart: for any seed and any (x, y)
\* with |x| < 2^53 and |y| < 2^53, the minimum squared distance the scan of
\* WorleyNoise2D.sample finds is at most 2, so d / sqrt(3) is below 1 and the
\* clamp to 1.0 does not decide the value returned.
C10_NearestWithinCell ==
  (/\ last.op = "WorleyNoise2D.sample"
   /\ FloatBelow53(last.args[1])
   /\ FloatBelow53(last.args[2]))
    => /\ DLe(last.min_dist2, DFromInt(2))
       /\ DLt(last.v, DOne)
       /\ DEq(last.ret.val, last.v)

\* sample(0.5, 0.25): a distance found that is neither 0 nor the initial 1e9
C10_Witness ==
  /\ last.op = "WorleyNoise2D.sample"
  /\ last.args = PointInside
  /\ DLt(DNil, last.min_dist2)
  /\ DLe(last.min_dist2, DFromInt(2))

====
